---- MODULE Spec2Model ----
(***************************************************************************)
(* TaskSync (src/task_sync.py): the SQLite task store (class Database),    *)
(* the Todoist fetch and the command dispatcher main().                    *)
(*                                                                         *)
(* Two specifications share the definitions of the store:                  *)
(*   SpecStore  a client of class Database calling upsert_tasks and        *)
(*              get_open_tasks with arbitrary Task values;                 *)
(*   Spec       runs of main(), one command per process.                   *)
(***************************************************************************)
EXTENDS Integers, Sequences, FiniteSets, TLC

(***************************************************************************)
(* Bounds of the model.                                                    *)
(***************************************************************************)
\* longest batch handed to upsert_tasks
MaxBatchLen == 2
\* largest value of the AUTOINCREMENT counter (every upserted record, insert
\* or update, takes one value)
MaxSeq == 3

(***************************************************************************)
(* SQL values.  A TEXT value is the sequence of its character codes, so    *)
(* that the BINARY collation (memcmp) of ORDER BY can be computed.         *)
(***************************************************************************)
NULL == [isNull |-> TRUE, text |-> <<>>]

Text(s) == [isNull |-> FALSE, text |-> s]

\* two decimal digits as character codes ('0' is 48)
Digits2(n) == <<48 + ((n \div 10) % 10), 48 + (n % 10)>>

\* four decimal digits as character codes
Digits4(n) == Digits2(n \div 100) \o Digits2(n % 100)

\* DATE_FMT "%Y-%m-%d" applied to the date <<y, m, d>> ('-' is 45)
IsoDate(date) == Digits4(date[1]) \o <<45>> \o Digits2(date[2]) \o <<45>> \o Digits2(date[3])

\* the calendar dates of the model
Dates == {<<2023, 12, 31>>, <<2024, 1, 5>>}

\* Task.due: Optional[str], an ISO date string or None
Dues == {NULL} \cup {Text(IsoDate(d)) : d \in Dates}

ExternalIds == {"e1", "e2"}

\* dataclass Task as fetch_tasks builds it: id=0, source="todoist"
FetchedTasks ==
    [id : {0}, external_id : ExternalIds, content : {"a"}, due : Dues,
     completed : BOOLEAN, source : {"todoist"}]

\* Task values of another producer, carrying an id, a content and a source
\* of their own
ManualTasks ==
    [id : {1}, external_id : ExternalIds, content : {"b"}, due : {NULL},
     completed : {FALSE}, source : {"manual"}]

\* the Task values handed to upsert_tasks
TaskValues == FetchedTasks \cup ManualTasks

\* the lists of at most n values of S
ListsUpTo(S, n) == UNION {[1..k -> S] : k \in 0..n}

\* tasks: List[Task], within the bound
BatchesOf(S) == ListsUpTo(S, MaxBatchLen)

\* the counter values left: the longest batch a store at counter seq takes
Room(seq) == IF MaxSeq - seq < MaxBatchLen THEN MaxSeq - seq ELSE MaxBatchLen

(***************************************************************************)
(* The database file: the rows of table tasks and the AUTOINCREMENT        *)
(* counter SQLite keeps for it in sqlite_sequence.                         *)
(***************************************************************************)
EmptyDb == [rows |-> {}, seq |-> 0]

\* int(t.completed), the value bound to column completed
IntOf(b) == IF b THEN 1 ELSE 0

\* mutant: external_id declared without UNIQUE, so no insert ever conflicts
ConflictRowsNoUnique(db, t) == {}

\* ON CONFLICT(external_id): the stored rows the UNIQUE column matches
ConflictRows(db, t) == {r \in db.rows : r.external_id = t.external_id}

\* INSERT INTO tasks (external_id, content, due, completed, source): the new
\* row; its id is the next AUTOINCREMENT value
InsertedRow(db, t) ==
    [id |-> db.seq + 1, external_id |-> t.external_id, content |-> t.content,
     due |-> t.due, completed |-> IntOf(t.completed), source |-> t.source]

\* mutant: DO UPDATE SET without completed=excluded.completed
UpdatedRowKeepCompleted(r, t) == [r EXCEPT !.content = t.content, !.due = t.due]

\* mutant: DO UPDATE SET with source=excluded.source added
UpdatedRowWithSource(r, t) ==
    [r EXCEPT !.content = t.content, !.due = t.due,
              !.completed = IntOf(t.completed), !.source = t.source]

\* DO UPDATE SET content, due, completed = excluded.*
UpdatedRow(r, t) ==
    [r EXCEPT !.content = t.content, !.due = t.due,
              !.completed = IntOf(t.completed)]

\* mutant: INSERT OR REPLACE, which deletes the conflicting row and inserts
\* the incoming record as a new row
UpsertOneReplace(db, t) ==
    [rows |-> (db.rows \ ConflictRows(db, t)) \cup {InsertedRow(db, t)},
     seq |-> db.seq + 1]

\* mutant: a plain UPDATE ... WHERE external_id=?, which stores no new record
UpsertOneUpdateOnly(db, t) ==
    [rows |-> (db.rows \ ConflictRows(db, t))
                \cup {UpdatedRow(r, t) : r \in ConflictRows(db, t)},
     seq |-> db.seq]

\* one execute() of the upsert statement.  SQLite allocates the rowid before
\* it finds the conflict, so the counter advances on an update too.
UpsertOne(db, t) ==
    IF ConflictRows(db, t) = {}
    THEN [rows |-> db.rows \cup {InsertedRow(db, t)}, seq |-> db.seq + 1]
    ELSE [rows |-> (db.rows \ ConflictRows(db, t))
                     \cup {UpdatedRow(r, t) : r \in ConflictRows(db, t)},
          seq |-> db.seq + 1]

\* the loop of upsert_tasks over the first n records of the batch
RECURSIVE UpsertLoop(_, _, _)
UpsertLoop(db, batch, n) ==
    IF n = 0 THEN db ELSE UpsertOne(UpsertLoop(db, batch, n - 1), batch[n])

\* mutant: a connection in autocommit mode (isolation_level=None), where
\* every execute() is durable at once
upsert_tasksAutocommit(v, d, batch, fault) ==
    IF fault = 0
    THEN LET done == UpsertLoop(v, batch, Len(batch))
         IN  [view |-> done, disk |-> done, raised |-> FALSE]
    ELSE LET part == UpsertLoop(v, batch, fault - 1)
         IN  [view |-> part, disk |-> part, raised |-> TRUE]

\* Database.upsert_tasks on a connection that sees v over the committed
\* file d.  fault = 0: every execute() succeeds and commit() makes the
\* result durable.  fault = k > 0: the k-th execute() raises, the records
\* before it stay in the connection's open transaction, commit() is not
\* reached and the exception leaves the method.
upsert_tasks(v, d, batch, fault) ==
    IF fault = 0
    THEN LET done == UpsertLoop(v, batch, Len(batch))
         IN  [view |-> done, disk |-> done, raised |-> FALSE]
    ELSE [view |-> UpsertLoop(v, batch, fault - 1), disk |-> d, raised |-> TRUE]

\* mutant: the SELECT without its WHERE clause
OpenRowsAll(db) == db.rows

\* WHERE completed=0
OpenRows(db) == {r \in db.rows : r.completed = 0}

\* BINARY collation of two TEXT values: memcmp, then the shorter first
TextLess(a, b) ==
    \/ Len(a) < Len(b) /\ \A j \in 1..Len(a) : a[j] = b[j]
    \/ \E i \in 1..Len(a) :
          /\ i <= Len(b)
          /\ a[i] < b[i]
          /\ \A j \in 1..(i - 1) : a[j] = b[j]

\* mutant: ORDER BY due alone, under which SQLite puts NULL first
OrderBeforeDueOnly(r1, r2) ==
    \/ r1.due.isNull /\ ~r2.due.isNull
    \/ /\ ~r1.due.isNull
       /\ ~r2.due.isNull
       /\ TextLess(r1.due.text, r2.due.text)

\* ORDER BY due IS NULL, due: r1 sorts strictly before r2
OrderBefore(r1, r2) ==
    \/ IntOf(r1.due.isNull) < IntOf(r2.due.isNull)
    \/ /\ ~r1.due.isNull
       /\ ~r2.due.isNull
       /\ TextLess(r1.due.text, r2.due.text)

\* Database.get_open_tasks: the sequences fetchall() may give, one Task per
\* selected row; rows equal under the ORDER BY come in either order
get_open_tasks(db) ==
    {s \in [1..Cardinality(OpenRows(db)) -> OpenRows(db)] :
        /\ \A i, j \in DOMAIN s : i # j => s[i] # s[j]
        /\ \A i, j \in DOMAIN s : i < j => ~OrderBefore(s[j], s[i])}

(***************************************************************************)
(* TodoistClient.fetch_tasks.  A response of the remote service is its     *)
(* kind and the items read from it: all of them for "ok", none when the    *)
(* request fails ("network") or raise_for_status() raises ("auth"), those  *)
(* before the item that lacks a key for "malformed".                       *)
(***************************************************************************)
\* the items of the remote list in the runs of main(): no due date
RemoteItems == {t \in FetchedTasks : t.due = NULL}

Responses ==
    [kind : {"ok"}, items : BatchesOf(RemoteItems)]
        \cup [kind : {"network", "auth"}, items : {<<>>}]
        \cup [kind : {"malformed"}, items : [1..1 -> RemoteItems]]

\* mutant: the errors of the request and of the parsing are caught and the
\* tasks built so far are returned
fetch_tasksSwallow(resp) == [raised |-> FALSE, tasks |-> resp.items]

\* fetch_tasks returns the list of every item, or raises
fetch_tasks(resp) ==
    IF resp.kind = "ok"
    THEN [raised |-> FALSE, tasks |-> resp.items]
    ELSE [raised |-> TRUE, tasks |-> <<>>]

(***************************************************************************)
(* State.                                                                  *)
(***************************************************************************)
VARIABLES
    fileExists,  \* tasks.db exists (with table tasks)
    disk,        \* the committed content of tasks.db
    connOpen,    \* a Database object holds an open connection
    view,        \* what the connection sees: disk plus its open transaction
    call,        \* the last call of a Database method: arguments, state before, result
    merged,      \* the task records as the last completed upsert_tasks left them
    pc,          \* position of main()
    cmd,         \* args.cmd
    cred,        \* the command's environment variable is set
    remote,      \* kind of the response fetch_tasks met in this run
    tasks,       \* main's local list tasks
    outcome      \* how the run ended

vars ==
    <<fileExists, disk, connOpen, view, call, merged, pc, cmd, cred, remote,
      tasks, outcome>>

mainVars == <<connOpen, pc, cmd, cred, remote, tasks, outcome>>

NoCall ==
    [op |-> "none", batch |-> <<>>, fault |-> 0, pre |-> EmptyDb,
     result |-> <<>>, again |-> FALSE, prevFault |-> 0, prevPre |-> EmptyDb]

\* the record of upsert_tasks(batch) called on view v after the call prev;
\* again: prev was upsert_tasks of the same batch
UpsertCall(prev, v, batch, fault) ==
    LET again == prev.op = "upsert" /\ prev.batch = batch
    IN  [op |-> "upsert", batch |-> batch, fault |-> fault, pre |-> v,
         result |-> <<>>, again |-> again,
         prevFault |-> IF again THEN prev.fault ELSE 0,
         prevPre |-> IF again THEN prev.pre ELSE EmptyDb]

GetOpenCall(v, s) ==
    [op |-> "get_open", batch |-> <<>>, fault |-> 0, pre |-> v, result |-> s,
     again |-> FALSE, prevFault |-> 0, prevPre |-> EmptyDb]

(***************************************************************************)
(* SpecStore: a client holding one Database object.                        *)
(***************************************************************************)
\* Database(): connect (creating the file) and _ensure_schema
InitStore ==
    /\ fileExists = TRUE
    /\ disk = EmptyDb
    /\ connOpen = TRUE
    /\ view = EmptyDb
    /\ call = NoCall
    /\ merged = {}
    /\ pc = "client"
    /\ cmd = "none"
    /\ cred = FALSE
    /\ remote = "none"
    /\ tasks = <<>>
    /\ outcome = "none"

\* db.upsert_tasks(batch), the storage layer raising nowhere
StoreUpsert ==
    \E batch \in ListsUpTo(TaskValues, Room(view.seq)) :
        /\ pc = "client"
        /\ view.seq + Len(batch) <= MaxSeq
        /\ LET r == upsert_tasks(view, disk, batch, 0)
           IN  view' = r.view /\ disk' = r.disk /\ merged' = r.disk.rows
        /\ call' = UpsertCall(call, view, batch, 0)
        /\ UNCHANGED <<fileExists, mainVars>>

\* db.upsert_tasks(batch) once more with the batch of the call before
StoreRepeat ==
    /\ pc = "client"
    /\ call.op = "upsert"
    /\ ~call.again
    /\ LET r == upsert_tasks(view, disk, call.batch, 0)
       IN  view' = r.view /\ disk' = r.disk /\ merged' = r.disk.rows
    /\ call' = UpsertCall(call, view, call.batch, 0)
    /\ UNCHANGED <<fileExists, mainVars>>

\* db.get_open_tasks()
StoreGetOpen ==
    \E s \in get_open_tasks(view) :
        /\ pc = "client"
        /\ call' = GetOpenCall(view, s)
        /\ UNCHANGED <<fileExists, disk, view, merged, mainVars>>

NextStore == StoreUpsert \/ StoreRepeat \/ StoreGetOpen

SpecStore == InitStore /\ [][NextStore]_vars

(***************************************************************************)
(* Spec: runs of main(), one after the other, in a directory that at first *)
(* holds no tasks.db.                                                      *)
(***************************************************************************)
Commands == {"sync-todoist", "export-md", "ask-chatgpt"}

Init ==
    /\ fileExists = FALSE
    /\ disk = EmptyDb
    /\ connOpen = FALSE
    /\ view = EmptyDb
    /\ call = NoCall
    /\ merged = {}
    /\ pc = "idle"
    /\ cmd = "none"
    /\ cred = FALSE
    /\ remote = "none"
    /\ tasks = <<>>
    /\ outcome = "none"

\* the process starts: load_env() and parse_args(); c is the subcommand and
\* k tells whether the variable the subcommand reads is set
Start ==
    \E c \in Commands : \E k \in BOOLEAN :
        /\ pc = "idle"
        /\ pc' = "connect"
        /\ cmd' = c
        /\ cred' = k
        /\ remote' = "none"
        /\ tasks' = <<>>
        /\ outcome' = "running"
        /\ UNCHANGED <<fileExists, disk, connOpen, view, call, merged>>

\* db = Database(): sqlite3.connect creates tasks.db when it is missing,
\* _ensure_schema creates the table when it is missing and commits
DatabaseInit ==
    /\ pc = "connect"
    /\ pc' = "dispatch"
    /\ fileExists' = TRUE
    /\ connOpen' = TRUE
    /\ view' = disk
    /\ UNCHANGED <<disk, call, merged, cmd, cred, remote, tasks, outcome>>

\* if not token / vault / key: raise SystemExit("... missing")
ConfigError ==
    /\ pc = "dispatch"
    /\ ~cred
    /\ pc' = "exit"
    /\ outcome' = "config_error"
    /\ UNCHANGED <<fileExists, disk, connOpen, view, call, merged, cmd, cred,
                   remote, tasks>>

\* tasks = client.fetch_tasks(); an exception leaves main()
FetchTasks ==
    \E resp \in Responses :
        /\ pc = "dispatch"
        /\ cmd = "sync-todoist"
        /\ cred
        /\ disk.seq + Len(resp.items) <= MaxSeq
        /\ remote' = resp.kind
        /\ IF fetch_tasks(resp).raised
           THEN pc' = "exit" /\ outcome' = "fetch_error" /\ tasks' = <<>>
           ELSE pc' = "upsert" /\ outcome' = outcome
                /\ tasks' = fetch_tasks(resp).tasks
        /\ UNCHANGED <<fileExists, disk, connOpen, view, call, merged, cmd, cred>>

\* db.upsert_tasks(tasks); print("Synced ..."): an exception of execute()
\* leaves main() before the print
SyncUpsert ==
    \E fault \in 0..Len(tasks) :
        /\ pc = "upsert"
        /\ pc' = "exit"
        /\ LET r == upsert_tasks(view, disk, tasks, fault)
           IN  /\ view' = r.view
               /\ disk' = r.disk
               /\ merged' = IF r.raised THEN merged ELSE r.disk.rows
               /\ outcome' = IF r.raised THEN "storage_error" ELSE "synced"
        /\ call' = UpsertCall(call, view, tasks, fault)
        /\ UNCHANGED <<fileExists, connOpen, cmd, cred, remote, tasks>>

\* tasks = db.get_open_tasks(), in export-md and in ask-chatgpt
ListOpen ==
    \E s \in get_open_tasks(view) :
        /\ pc = "dispatch"
        /\ cmd \in {"export-md", "ask-chatgpt"}
        /\ cred
        /\ pc' = "consume"
        /\ tasks' = s
        /\ call' = GetOpenCall(view, s)
        /\ UNCHANGED <<fileExists, disk, connOpen, view, merged, cmd, cred,
                       remote, outcome>>

\* exporter.export(tasks), or controller.summarise_tasks(tasks) and print;
\* either may raise (the vault is not writable, the chat call fails)
Consume ==
    \E ok \in BOOLEAN :
        /\ pc = "consume"
        /\ pc' = "exit"
        /\ outcome' = IF cmd = "export-md"
                      THEN (IF ok THEN "exported" ELSE "export_error")
                      ELSE (IF ok THEN "summarised" ELSE "summarisation_error")
        /\ UNCHANGED <<fileExists, disk, connOpen, view, call, merged, cmd, cred,
                       remote, tasks>>

\* the process ends and its memory is gone; the connection is closed without
\* a commit, which rolls its open transaction back
Exit ==
    /\ pc = "exit"
    /\ pc' = "idle"
    /\ connOpen' = FALSE
    /\ view' = disk
    /\ cmd' = "none"
    /\ cred' = FALSE
    /\ remote' = "none"
    /\ tasks' = <<>>
    /\ outcome' = "none"
    /\ UNCHANGED <<fileExists, disk, call, merged>>

Next ==
    \/ Start
    \/ DatabaseInit
    \/ ConfigError
    \/ FetchTasks
    \/ SyncUpsert
    \/ ListOpen
    \/ Consume
    \/ Exit

Spec == Init /\ [][Next]_vars

(***************************************************************************)
(* Properties of the store, checked under SpecStore.                       *)
(***************************************************************************)
\* the stored row of external id e in db (there is one)
RowOf(db, e) == CHOOSE r \in db.rows : r.external_id = e

Stored(db, e) == \E r \in db.rows : r.external_id = e

\* the external ids the batch carries
Carried(batch) == {batch[i].external_id : i \in DOMAIN batch}

\* the last record of the batch for external id e (there is one)
LastFor(batch, e) ==
    batch[CHOOSE i \in DOMAIN batch :
            /\ batch[i].external_id = e
            /\ \A j \in DOMAIN batch : j > i => batch[j].external_id # e]

\* the calendar date an ISO text denotes, as the number yyyymmdd
DateOf(text) ==
    LET n(i) == text[i] - 48
    IN  (((n(1) * 10 + n(2)) * 10 + n(3)) * 10 + n(4)) * 10000
          + (n(6) * 10 + n(7)) * 100 + (n(9) * 10 + n(10))

\* C1: no two stored task records have the same externalId, in the
\* connection's view and in the committed file, whatever was merged.
C1_UniqueExternalId ==
    \A db \in {view, disk} : \A r1, r2 \in db.rows :
        r1.external_id = r2.external_id => r1 = r2

\* a merge carried a record whose externalId was already stored, next to
\* another stored record
C1_Witness ==
    /\ call.op = "upsert"
    /\ \E e \in Carried(call.batch) : Stored(call.pre, e)
    /\ Cardinality(view.rows) = 2

\* C2: merge(T) straight after merge(T) leaves the stored task records as
\* the first merge(T) left them.
C2_IdempotentMerge ==
    (call.op = "upsert" /\ call.again) => view.rows = call.pre.rows

\* a batch with two different records of one externalId was merged twice in
\* a row into a store that held another record before
C2_Witness ==
    /\ call.op = "upsert"
    /\ call.again
    /\ Len(call.batch) = 2
    /\ call.batch[1].external_id = call.batch[2].external_id
    /\ call.batch[1].due # call.batch[2].due
    /\ call.batch[1].source # call.batch[2].source
    /\ Cardinality(view.rows) = 2

\* C3: merging one task with an unseen externalId adds exactly one record
\* and, if the task is not completed, exactly one entry to listOpen; a merge
\* carrying only stored externalIds leaves the record count as it was.
C3_MergeIsUpsert ==
    call.op = "upsert" =>
        /\ (Len(call.batch) = 1 /\ ~Stored(call.pre, call.batch[1].external_id)) =>
              /\ Cardinality(view.rows) = Cardinality(call.pre.rows) + 1
              /\ ~call.batch[1].completed =>
                    \A s0 \in get_open_tasks(call.pre) : \A s1 \in get_open_tasks(view) :
                        Len(s1) = Len(s0) + 1
        /\ (\A e \in Carried(call.batch) : Stored(call.pre, e)) =>
              Cardinality(view.rows) = Cardinality(call.pre.rows)

\* one open task with an unseen externalId was merged into a store holding
\* a completed record
C3_Witness ==
    /\ call.op = "upsert"
    /\ Len(call.batch) = 1
    /\ ~Stored(call.pre, call.batch[1].external_id)
    /\ ~call.batch[1].completed
    /\ \E r \in call.pre.rows : r.completed = 1

\* C4: after a merge whose record for e says completed=true (the last one,
\* if the batch has several for e), an e stored as open before is in no
\* listOpen result, and its record is still stored under the same id.
C4_CompletionTransition ==
    call.op = "upsert" =>
        \A e \in Carried(call.batch) :
            (/\ Stored(call.pre, e)
             /\ RowOf(call.pre, e).completed = 0
             /\ LastFor(call.batch, e).completed) =>
                /\ \A s \in get_open_tasks(view) : \A i \in DOMAIN s :
                      s[i].external_id # e
                /\ Stored(view, e)
                /\ RowOf(view, e).id = RowOf(call.pre, e).id

\* an open record was merged as completed while another record stayed open
C4_Witness ==
    /\ call.op = "upsert"
    /\ \E e \in Carried(call.batch) :
          /\ Stored(call.pre, e)
          /\ RowOf(call.pre, e).completed = 0
          /\ LastFor(call.batch, e).completed
    /\ OpenRows(view) # {}

\* C5: in a listOpen result no task without a due date comes before one
\* with a due date, and the due-dated ones are in non-decreasing calendar
\* order.
C5_OrderingLaw ==
    call.op = "get_open" =>
        \A i, j \in DOMAIN call.result :
            i < j =>
                /\ call.result[i].due.isNull => call.result[j].due.isNull
                /\ (~call.result[i].due.isNull /\ ~call.result[j].due.isNull) =>
                      DateOf(call.result[i].due.text) <= DateOf(call.result[j].due.text)

\* listOpen returned two tasks of different dates, the later-inserted first
C5_Witness ==
    /\ call.op = "get_open"
    /\ Len(call.result) = 2
    /\ ~call.result[1].due.isNull
    /\ ~call.result[2].due.isNull
    /\ call.result[1].due # call.result[2].due
    /\ call.result[1].id > call.result[2].id

\* C6: listOpen returns the stored records whose completed flag is false,
\* each once and no other (so the empty sequence when there is none), and
\* leaves the store as it was.
C6_ListOpenExact ==
    call.op = "get_open" =>
        /\ {call.result[i] : i \in DOMAIN call.result}
              = {r \in view.rows : r.completed = 0}
        /\ Len(call.result) = Cardinality({r \in view.rows : r.completed = 0})
        /\ view = call.pre
        /\ disk = call.pre

\* listOpen returned one task from a store holding an open and a completed one
C6_Witness ==
    /\ call.op = "get_open"
    /\ Len(call.result) = 1
    /\ Cardinality(view.rows) = 2

\* C7: a merge carrying an externalId that is already stored sets the
\* stored record's content, due and completed to the incoming values (of the
\* last record for it) and leaves its id and its source as first inserted.
C7_UpdateKeepsIdentity ==
    call.op = "upsert" =>
        \A e \in Carried(call.batch) :
            Stored(call.pre, e) =>
                /\ Stored(view, e)
                /\ RowOf(view, e).content = LastFor(call.batch, e).content
                /\ RowOf(view, e).due = LastFor(call.batch, e).due
                /\ RowOf(view, e).completed = IntOf(LastFor(call.batch, e).completed)
                /\ RowOf(view, e).id = RowOf(call.pre, e).id
                /\ RowOf(view, e).source = RowOf(call.pre, e).source

\* a stored record was merged again by a record of another id, content and
\* source
C7_Witness ==
    /\ call.op = "upsert"
    /\ Len(call.batch) = 1
    /\ Stored(call.pre, call.batch[1].external_id)
    /\ RowOf(call.pre, call.batch[1].external_id).source # call.batch[1].source
    /\ RowOf(call.pre, call.batch[1].external_id).content # call.batch[1].content
    /\ RowOf(call.pre, call.batch[1].external_id).id # call.batch[1].id

(***************************************************************************)
(* Properties of main(), checked under Spec.                               *)
(***************************************************************************)
\* C8: when the command's credential or path is missing, the configuration
\* error is reported with the store never opened in that run.
C8_ConfigErrorBeforeStore == outcome = "config_error" => ~connOpen

\* C9: in a run whose fetch failed, main() stops with the error and the
\* stored task records, committed and as the connection sees them, are
\* those the last completed merge left.
C9_FetchFailureLeavesStore ==
    remote \in {"network", "auth", "malformed"} =>
        /\ pc = "exit"
        /\ outcome = "fetch_error"
        /\ disk.rows = merged
        /\ view.rows = merged

\* the fetch failed on a malformed response, over a store that holds records
C9_Witness ==
    /\ remote = "malformed"
    /\ outcome = "fetch_error"
    /\ disk.rows # {}

\* C10: a run whose upsert_tasks raised does not end as synced; the
\* committed store is then the state before the call with some prefix of the
\* batch merged; and when the next call merges the same batch without a
\* fault, the committed store is what the merge of the batch into the state
\* before the failed call gives.
C10_FailedMergeReported ==
    /\ (call.op = "upsert" /\ call.fault > 0) =>
          \E k \in 0..Len(call.batch) :
              disk = UpsertLoop(call.pre, call.batch, k)
    /\ (pc = "exit" /\ cmd = "sync-todoist" /\ remote = "ok") =>
          /\ call.op = "upsert"
          /\ call.fault > 0 => outcome = "storage_error"
          /\ outcome = "synced" => call.fault = 0
          /\ (call.fault = 0 /\ call.again /\ call.prevFault > 0) =>
                disk = UpsertLoop(call.prevPre, call.batch, Len(call.batch))

\* a batch of two records that failed at its second record, over a store
\* that held records, was merged in full by the next sync
C10_Witness ==
    /\ pc = "exit"
    /\ outcome = "synced"
    /\ call.again
    /\ call.prevFault = 2
    /\ call.prevPre.rows # {}
    /\ call.batch[1].external_id # call.batch[2].external_id

====
